---------------------------- MODULE Spec2Model ----------------------------
(***************************************************************************)
(* A model of the NetScaler LBaaS plugin driver                            *)
(* (neutron_lbaas/services/loadbalancer/drivers/netscaler/                 *)
(* netscaler_driver.py): the lifecycle operations of NetScalerPluginDriver *)
(* (create/update/delete of vip, pool, member, health monitor), the module *)
(* level list VIP_IN_PENDING_CREATE, and the two passes of the periodic    *)
(* task (Collectors._refresh_vip_status and                                *)
(* Collectors._refresh_all_members_status).                                *)
(*                                                                         *)
(* The load-balancer plugin (the local store) and the NCC client (the      *)
(* remote controller) are collaborators.  The store is modelled as one map *)
(* from identifiers to statuses per resource kind; the outcome of every    *)
(* remote call is an input of the action that issues it.                   *)
(***************************************************************************)
EXTENDS Integers, Sequences, FiniteSets

\* ------------------------------------------------------------------------
\* Bounds of the model
\* ------------------------------------------------------------------------

\* longest VIP_IN_PENDING_CREATE list that is explored
MaxPending == 2

\* most status groups the remote member-status feed holds
MaxGroups == 3

\* largest configured page size that is explored
MaxPageSize == 2

\* the pages one sweep is followed through (the while loop has no bound)
MaxPages == 4

\* identifiers that can have a record in the store
VipIds == {"v1", "v2"}
PoolIds == {"p1"}
MemberIds == {"m1", "m2"}
MonitorIds == {"h1"}

\* identifiers the new entity of an update can carry
NewPoolIds == PoolIds \cup {"p2"}
NewMonitorIds == MonitorIds \cup {"h2"}

\* ------------------------------------------------------------------------
\* Program constants
\* ------------------------------------------------------------------------

PENDING_CREATE == "PENDING_CREATE"
ACTIVE == "ACTIVE"
ERROR == "ERROR"

RESOURCE_PREFIX == "v2.0/lb"
VIPS_RESOURCE == "vips"
POOLS_RESOURCE == "pools"
POOLMEMBERS_RESOURCE == "members"
MONITORS_RESOURCE == "healthmonitors"
STATS_RESOURCE == "stats"
STATUS_PREFIX == "oca/v1"
MEMBER_STATUS == "memberstatus"

\* the store holds no record under this identifier
NONE == "NONE"

\* what ncc_client.retrieve_resource can do for a vip: raise NCCException,
\* or return a body whose vip.status is one of these
NCCException == "NCCException"
VipRemoteStatuses == {PENDING_CREATE, ACTIVE, ERROR, "DOWN"}
RetrieveOutcomes == {NCCException} \cup VipRemoteStatuses

\* what the member-status feed can report for a member: status, status_description
MemberReports ==
    {[status |-> ACTIVE, status_description |-> ""],
     [status |-> "DOWN", status_description |-> "probe failed"]}

\* ------------------------------------------------------------------------
\* State
\* ------------------------------------------------------------------------

VARIABLES
    vips,                   \* store: vip id -> status, or NONE
    pools,                  \* store: pool id -> status, or NONE
    members,                \* store: member id -> status, or NONE
    monitors,               \* store: <<monitor id, pool id>> -> status, or NONE
    VIP_IN_PENDING_CREATE,  \* the module-level list of vip ids
    enable_status_collection,   \* configuration, read at construction
    status_collection_pagesize, \* configuration, read at construction
    last,                   \* what the most recent handler did (observer)
    flows,                  \* where the handlers that run step by step are
    ncc_vips                \* remote: the vip status the controller has settled on, or NONE

conf == <<enable_status_collection, status_collection_pagesize>>

vars == <<vips, pools, members, monitors, VIP_IN_PENDING_CREATE, conf, last, flows,
         ncc_vips>>

\* ------------------------------------------------------------------------
\* Helpers
\* ------------------------------------------------------------------------

Range(s) == {s[i] : i \in 1..Len(s)}

\* the enumerations of a finite set: the orders a query can list it in
OrdersOf(S) ==
    {s \in [1..Cardinality(S) -> S] : \A i, j \in 1..Cardinality(S) : s[i] = s[j] => i = j}

\* list.remove(x): drops the first occurrence (the caller checks membership)
ListRemove(s, x) ==
    LET i == CHOOSE k \in 1..Len(s) : s[k] = x /\ \A j \in 1..(k - 1) : s[j] # x
    IN  SubSeq(s, 1, i - 1) \o SubSeq(s, i + 1, Len(s))

NoDesc == "-"
NoPool == "-"
NoAnswers == [v \in {} |-> NCCException]

\* what a method returns when it falls off its end (None)
NoResult == "None"

\* one remote call: the client method and the resource path, as segments
Call(verb, path) == [verb |-> verb, path |-> <<RESOURCE_PREFIX>> \o path]

\* one write to the local store
StatusWrite(kind, id, status, desc) ==
    [act |-> "update_status", kind |-> kind, id |-> id, pool |-> NoPool,
     status |-> status, desc |-> desc]
DbDelete(kind, id) ==
    [act |-> "delete", kind |-> kind, id |-> id, pool |-> NoPool,
     status |-> NONE, desc |-> NoDesc]
\* plugin.update_pool_health_monitor / plugin._delete_db_pool_health_monitor
MonitorWrite(id, pool_id, status, desc) ==
    [StatusWrite("healthmonitor", id, status, desc) EXCEPT !.pool = pool_id]
MonitorDelete(id, pool_id) ==
    [DbDelete("healthmonitor", id) EXCEPT !.pool = pool_id]

\* plugin.update_status(context, model, id, status)
update_status(store, id, status) == [store EXCEPT ![id] = status]

\* plugin._delete_db_<kind>(context, id)
delete_db(store, id) == [store EXCEPT ![id] = NONE]

\* plugin.get_vips(context, filters={'status': [status]})
get_vips(store, status) == {v \in DOMAIN store : store[v] = status}

Report(op, id, new, ok, calls, writes) ==
    [op |-> op, id |-> id, new |-> new, pool |-> NoPool, ok |-> ok, calls |-> calls,
     writes |-> writes, raised |-> FALSE, listed |-> <<>>, answers |-> NoAnswers,
     pages |-> <<>>, statuses |-> <<>>, ran |-> <<>>, body |-> NoResult,
     returned |-> NoResult]

\* a create_vip that has not been called
IdleCreate == [pc |-> "idle", status |-> NONE]

\* no convergence pass is running; failed: a pass has ended by raising
IdlePass == [pc |-> "idle", listed |-> <<>>, i |-> 0, answer |-> NONE, failed |-> FALSE]

\* no member sweep has run; pages: the page numbers asked for, lens: the
\* number of status groups each of them returned
IdleSweep == [pc |-> "idle", page_no |-> 0, pages |-> <<>>, lens |-> <<>>]

\* ------------------------------------------------------------------------
\* Initial state: the driver has just been constructed
\* ------------------------------------------------------------------------

Init ==
    /\ vips = [v \in VipIds |-> NONE]
    /\ pools = [p \in PoolIds |-> NONE]
    /\ members = [m \in MemberIds |-> NONE]
    /\ monitors = [k \in MonitorIds \X PoolIds |-> NONE]
    /\ VIP_IN_PENDING_CREATE = <<>>
    /\ enable_status_collection \in BOOLEAN
    /\ status_collection_pagesize \in 1..MaxPageSize
    /\ last = Report("init", "-", "-", TRUE, <<>>, <<>>)
    /\ flows = [create |-> [v \in VipIds |-> IdleCreate], pass |-> IdlePass,
                sweep |-> IdleSweep]
    /\ ncc_vips = [v \in VipIds |-> NONE]

\* ------------------------------------------------------------------------
\* Lifecycle Driver: vip
\* ------------------------------------------------------------------------

\* create_vip(context, vip); ok: client.create_resource did not raise
create_vip(vip, ok) ==
    /\ ok => Len(VIP_IN_PENDING_CREATE) < MaxPending
    /\ LET status == IF ok THEN PENDING_CREATE ELSE ERROR
       IN  /\ VIP_IN_PENDING_CREATE' =
                  IF ok THEN Append(VIP_IN_PENDING_CREATE, vip)
                        ELSE VIP_IN_PENDING_CREATE
           /\ vips' = update_status(vips, vip, status)
           /\ last' = Report("create_vip", vip, vip, ok,
                             <<Call("create_resource", <<VIPS_RESOURCE>>)>>,
                             <<StatusWrite("vip", vip, status, NoDesc)>>)
    /\ UNCHANGED <<pools, members, monitors, conf, flows, ncc_vips>>

\* An update_vip that stores ERROR whatever the remote call did: the variant
\* C13 must tell from update_vip.
update_vip_always_error(old_vip, vip, ok) ==
    /\ vips[old_vip] # NONE
    /\ vips' = update_status(vips, old_vip, ERROR)
    /\ last' = Report("update_vip", old_vip, vip, ok,
                      <<Call("update_resource", <<VIPS_RESOURCE, vip>>)>>,
                      <<StatusWrite("vip", old_vip, ERROR, NoDesc)>>)
    /\ UNCHANGED <<VIP_IN_PENDING_CREATE, pools, members, monitors, conf, flows, ncc_vips>>

\* update_vip(context, old_vip, vip); ok: client.update_resource did not raise
update_vip(old_vip, vip, ok) ==
    /\ vips[old_vip] # NONE
    /\ LET status == IF ok THEN ACTIVE ELSE ERROR
       IN  /\ vips' = update_status(vips, old_vip, status)
           /\ last' = Report("update_vip", old_vip, vip, ok,
                             <<Call("update_resource", <<VIPS_RESOURCE, vip>>)>>,
                             <<StatusWrite("vip", old_vip, status, NoDesc)>>)
    /\ UNCHANGED <<VIP_IN_PENDING_CREATE, pools, members, monitors, conf, flows, ncc_vips>>

\* A delete_vip that also empties VIP_IN_PENDING_CREATE: the variant C18 must
\* tell from delete_vip.
delete_vip_clears_pending(vip, ok) ==
    /\ vips[vip] # NONE
    /\ IF ok
       THEN /\ vips' = delete_db(vips, vip)
            /\ VIP_IN_PENDING_CREATE' = <<>>
            /\ last' = Report("delete_vip", vip, vip, ok,
                              <<Call("remove_resource", <<VIPS_RESOURCE, vip>>)>>,
                              <<DbDelete("vip", vip)>>)
       ELSE /\ vips' = update_status(vips, vip, ERROR)
            /\ VIP_IN_PENDING_CREATE' = VIP_IN_PENDING_CREATE
            /\ last' = Report("delete_vip", vip, vip, ok,
                              <<Call("remove_resource", <<VIPS_RESOURCE, vip>>)>>,
                              <<StatusWrite("vip", vip, ERROR, NoDesc)>>)
    /\ UNCHANGED <<pools, members, monitors, conf, flows, ncc_vips>>

\* delete_vip(context, vip); ok: client.remove_resource did not raise
delete_vip(vip, ok) ==
    /\ vips[vip] # NONE
    /\ IF ok
       THEN /\ vips' = delete_db(vips, vip)
            /\ last' = Report("delete_vip", vip, vip, ok,
                              <<Call("remove_resource", <<VIPS_RESOURCE, vip>>)>>,
                              <<DbDelete("vip", vip)>>)
       ELSE /\ vips' = update_status(vips, vip, ERROR)
            /\ last' = Report("delete_vip", vip, vip, ok,
                              <<Call("remove_resource", <<VIPS_RESOURCE, vip>>)>>,
                              <<StatusWrite("vip", vip, ERROR, NoDesc)>>)
    /\ UNCHANGED <<VIP_IN_PENDING_CREATE, pools, members, monitors, conf, flows, ncc_vips>>

\* ------------------------------------------------------------------------
\* Lifecycle Driver: pool
\* ------------------------------------------------------------------------

\* create_pool(context, pool)
create_pool(pool, ok) ==
    /\ LET status == IF ok THEN ACTIVE ELSE ERROR
       IN  /\ pools' = update_status(pools, pool, status)
           /\ last' = Report("create_pool", pool, pool, ok,
                             <<Call("create_resource", <<POOLS_RESOURCE>>)>>,
                             <<StatusWrite("pool", pool, status, NoDesc)>>)
    /\ UNCHANGED <<vips, VIP_IN_PENDING_CREATE, members, monitors, conf, flows, ncc_vips>>

\* update_pool(context, old_pool, pool)
update_pool(old_pool, pool, ok) ==
    /\ pools[old_pool] # NONE
    /\ LET status == IF ok THEN ACTIVE ELSE ERROR
       IN  /\ pools' = update_status(pools, old_pool, status)
           /\ last' = Report("update_pool", old_pool, pool, ok,
                             <<Call("update_resource", <<POOLS_RESOURCE, old_pool>>)>>,
                             <<StatusWrite("pool", old_pool, status, NoDesc)>>)
    /\ UNCHANGED <<vips, VIP_IN_PENDING_CREATE, members, monitors, conf, flows, ncc_vips>>

\* A delete_pool that swallows the remote failure without recording it: the
\* variant C8 must tell from delete_pool.
delete_pool_silent_on_failure(pool, ok) ==
    /\ pools[pool] # NONE
    /\ IF ok
       THEN /\ pools' = delete_db(pools, pool)
            /\ last' = Report("delete_pool", pool, pool, ok,
                              <<Call("remove_resource", <<POOLS_RESOURCE, pool>>)>>,
                              <<DbDelete("pool", pool)>>)
       ELSE /\ pools' = pools
            /\ last' = Report("delete_pool", pool, pool, ok,
                              <<Call("remove_resource", <<POOLS_RESOURCE, pool>>)>>,
                              <<>>)
    /\ UNCHANGED <<vips, VIP_IN_PENDING_CREATE, members, monitors, conf, flows, ncc_vips>>

\* delete_pool(context, pool)
delete_pool(pool, ok) ==
    /\ pools[pool] # NONE
    /\ IF ok
       THEN /\ pools' = delete_db(pools, pool)
            /\ last' = Report("delete_pool", pool, pool, ok,
                              <<Call("remove_resource", <<POOLS_RESOURCE, pool>>)>>,
                              <<DbDelete("pool", pool)>>)
       ELSE /\ pools' = update_status(pools, pool, ERROR)
            /\ last' = Report("delete_pool", pool, pool, ok,
                              <<Call("remove_resource", <<POOLS_RESOURCE, pool>>)>>,
                              <<StatusWrite("pool", pool, ERROR, NoDesc)>>)
    /\ UNCHANGED <<vips, VIP_IN_PENDING_CREATE, members, monitors, conf, flows, ncc_vips>>

\* ------------------------------------------------------------------------
\* Lifecycle Driver: member
\* ------------------------------------------------------------------------

\* A create_member whose status also depends on the status the member had:
\* once ERROR, it stays ERROR.  The variant C6 must tell from create_member.
create_member_keeps_error(member, ok) ==
    /\ LET status == IF ok /\ members[member] # ERROR THEN ACTIVE ELSE ERROR
       IN  /\ members' = update_status(members, member, status)
           /\ last' = Report("create_member", member, member, ok,
                             <<Call("create_resource", <<POOLMEMBERS_RESOURCE>>)>>,
                             <<StatusWrite("member", member, status, NoDesc)>>)
    /\ UNCHANGED <<vips, VIP_IN_PENDING_CREATE, pools, monitors, conf, flows, ncc_vips>>

\* create_member(context, member)
create_member(member, ok) ==
    /\ LET status == IF ok THEN ACTIVE ELSE ERROR
       IN  /\ members' = update_status(members, member, status)
           /\ last' = Report("create_member", member, member, ok,
                             <<Call("create_resource", <<POOLMEMBERS_RESOURCE>>)>>,
                             <<StatusWrite("member", member, status, NoDesc)>>)
    /\ UNCHANGED <<vips, VIP_IN_PENDING_CREATE, pools, monitors, conf, flows, ncc_vips>>

\* update_member(context, old_member, member)
update_member(old_member, member, ok) ==
    /\ members[old_member] # NONE
    /\ LET status == IF ok THEN ACTIVE ELSE ERROR
       IN  /\ members' = update_status(members, old_member, status)
           /\ last' = Report("update_member", old_member, member, ok,
                             <<Call("update_resource", <<POOLMEMBERS_RESOURCE, old_member>>)>>,
                             <<StatusWrite("member", old_member, status, NoDesc)>>)
    /\ UNCHANGED <<vips, VIP_IN_PENDING_CREATE, pools, monitors, conf, flows, ncc_vips>>

\* A delete_member that drops the record whatever the remote answers: the
\* variant C4 must tell from delete_member.
delete_member_always_drops(member, ok) ==
    /\ members[member] # NONE
    /\ members' = delete_db(members, member)
    /\ last' = Report("delete_member", member, member, ok,
                      <<Call("remove_resource", <<POOLMEMBERS_RESOURCE, member>>)>>,
                      <<DbDelete("member", member)>>)
    /\ UNCHANGED <<vips, VIP_IN_PENDING_CREATE, pools, monitors, conf, flows, ncc_vips>>

\* delete_member(context, member)
delete_member(member, ok) ==
    /\ members[member] # NONE
    /\ IF ok
       THEN /\ members' = delete_db(members, member)
            /\ last' = Report("delete_member", member, member, ok,
                              <<Call("remove_resource", <<POOLMEMBERS_RESOURCE, member>>)>>,
                              <<DbDelete("member", member)>>)
       ELSE /\ members' = update_status(members, member, ERROR)
            /\ last' = Report("delete_member", member, member, ok,
                              <<Call("remove_resource", <<POOLMEMBERS_RESOURCE, member>>)>>,
                              <<StatusWrite("member", member, ERROR, NoDesc)>>)
    /\ UNCHANGED <<vips, VIP_IN_PENDING_CREATE, pools, monitors, conf, flows, ncc_vips>>

\* ------------------------------------------------------------------------
\* Lifecycle Driver: health monitor of a pool
\* ------------------------------------------------------------------------

\* create_pool_health_monitor(context, health_monitor, pool_id)
create_pool_health_monitor(health_monitor, pool_id, ok) ==
    /\ LET status == IF ok THEN ACTIVE ELSE ERROR
       IN  /\ monitors' = update_status(monitors, <<health_monitor, pool_id>>, status)
           /\ last' = [Report("create_pool_health_monitor", health_monitor,
                              health_monitor, ok,
                              <<Call("create_resource",
                                     <<POOLS_RESOURCE, pool_id, MONITORS_RESOURCE>>)>>,
                              <<MonitorWrite(health_monitor, pool_id, status, "")>>)
                         EXCEPT !.pool = pool_id]
    /\ UNCHANGED <<vips, VIP_IN_PENDING_CREATE, pools, members, conf, flows, ncc_vips>>

\* update_pool_health_monitor(context, old_health_monitor, health_monitor, pool_id)
update_pool_health_monitor(old_health_monitor, health_monitor, pool_id, ok) ==
    /\ monitors[<<old_health_monitor, pool_id>>] # NONE
    /\ LET status == IF ok THEN ACTIVE ELSE ERROR
       IN  /\ monitors' = update_status(monitors, <<old_health_monitor, pool_id>>, status)
           /\ last' = [Report("update_pool_health_monitor", old_health_monitor,
                              health_monitor, ok,
                              <<Call("update_resource",
                                     <<MONITORS_RESOURCE, old_health_monitor>>)>>,
                              <<MonitorWrite(old_health_monitor, pool_id, status, "")>>)
                         EXCEPT !.pool = pool_id]
    /\ UNCHANGED <<vips, VIP_IN_PENDING_CREATE, pools, members, conf, flows, ncc_vips>>

\* delete_pool_health_monitor(context, health_monitor, pool_id)
delete_pool_health_monitor(health_monitor, pool_id, ok) ==
    /\ monitors[<<health_monitor, pool_id>>] # NONE
    /\ LET call == Call("remove_resource",
                        <<POOLS_RESOURCE, pool_id, MONITORS_RESOURCE, health_monitor>>)
       IN  IF ok
           THEN /\ monitors' = delete_db(monitors, <<health_monitor, pool_id>>)
                /\ last' = [Report("delete_pool_health_monitor", health_monitor,
                                   health_monitor, ok, <<call>>,
                                   <<MonitorDelete(health_monitor, pool_id)>>)
                              EXCEPT !.pool = pool_id]
           ELSE /\ monitors' = update_status(monitors, <<health_monitor, pool_id>>, ERROR)
                /\ last' = [Report("delete_pool_health_monitor", health_monitor,
                                   health_monitor, ok, <<call>>,
                                   <<MonitorWrite(health_monitor, pool_id, ERROR, "")>>)
                              EXCEPT !.pool = pool_id]
    /\ UNCHANGED <<vips, VIP_IN_PENDING_CREATE, pools, members, conf, flows, ncc_vips>>

\* ------------------------------------------------------------------------
\* Pool statistics
\* ------------------------------------------------------------------------

\* the 'stats' mappings the remote answers with
StatsBodies == {[bytes_in |-> 0, bytes_out |-> 0], [bytes_in |-> 1, bytes_out |-> 2]}

\* A stats that marks the pool ERROR when the retrieve fails: the variant C14
\* must tell from stats.
stats_marks_pool_error(pool_id, ok, body) ==
    /\ pools' = IF ok THEN pools ELSE update_status(pools, pool_id, ERROR)
    /\ last' = [Report("stats", pool_id, pool_id, ok,
                       <<Call("retrieve_resource",
                              <<POOLS_RESOURCE, pool_id, STATS_RESOURCE>>)>>,
                       IF ok THEN <<>> ELSE <<StatusWrite("pool", pool_id, ERROR, NoDesc)>>)
                  EXCEPT !.body = IF ok THEN body ELSE NoResult,
                         !.returned = IF ok THEN body ELSE NoResult]
    /\ UNCHANGED <<vips, VIP_IN_PENDING_CREATE, members, monitors, conf, flows, ncc_vips>>

\* stats(context, pool_id); ok: client.retrieve_resource did not raise
\* NCCException; body: result['body']['stats'].  The except branch only
\* logs, and the method ends without a return statement.
stats(pool_id, ok, body) ==
    /\ last' = [Report("stats", pool_id, pool_id, ok,
                       <<Call("retrieve_resource",
                              <<POOLS_RESOURCE, pool_id, STATS_RESOURCE>>)>>,
                       <<>>)
                  EXCEPT !.body = IF ok THEN body ELSE NoResult,
                         !.returned = IF ok THEN body ELSE NoResult]
    /\ UNCHANGED <<vips, VIP_IN_PENDING_CREATE, pools, members, monitors, conf, flows, ncc_vips>>

\* ------------------------------------------------------------------------
\* VIP Convergence Pass
\* ------------------------------------------------------------------------

\* A loop body that treats a failed retrieve as terminal and stores ERROR:
\* the variant C15 must tell from refresh_one_vip.
refresh_one_vip_error_on_failure(acc, vip_id, answer) ==
    LET polled == [acc EXCEPT
                     !.calls = Append(@, Call("retrieve_resource", <<VIPS_RESOURCE, vip_id>>))]
        status == IF answer = NCCException THEN ERROR ELSE answer
    IN  IF status # PENDING_CREATE
        THEN LET written == [polled EXCEPT
                               !.vips = update_status(@, vip_id, status),
                               !.writes = Append(@, StatusWrite("vip", vip_id, status, NoDesc))]
             IN  IF vip_id \in Range(acc.pending)
                 THEN [written EXCEPT !.pending = ListRemove(@, vip_id)]
                 ELSE [written EXCEPT !.raised = TRUE]
        ELSE polled

\* The body of the for loop of _refresh_vip_status for one vip_id, on the
\* pass's running state acc; answer is what retrieve_resource does.
refresh_one_vip(acc, vip_id, answer) ==
    LET polled == [acc EXCEPT
                     !.calls = Append(@, Call("retrieve_resource", <<VIPS_RESOURCE, vip_id>>))]
    IN  IF answer = NCCException
        THEN polled
        ELSE IF answer # PENDING_CREATE
        THEN LET written == [polled EXCEPT
                               !.vips = update_status(@, vip_id, answer),
                               !.writes = Append(@, StatusWrite("vip", vip_id, answer, NoDesc))]
             IN  IF vip_id \in Range(acc.pending)
                 THEN [written EXCEPT !.pending = ListRemove(@, vip_id)]
                 ELSE [written EXCEPT !.raised = TRUE]   \* list.remove: ValueError
        ELSE polled

\* the for loop from position i on: an exception leaves the loop
RECURSIVE refresh_loop(_, _, _, _)
refresh_loop(acc, listed, answers, i) ==
    IF i > Len(listed) \/ acc.raised
    THEN acc
    ELSE refresh_loop(refresh_one_vip(acc, listed[i], answers[listed[i]]),
                      listed, answers, i + 1)

\* _refresh_vip_status(); pending_vips: the store's answer to the query, in
\* the order the store lists it; answers: what the remote does per vip
refresh_vip_status(pending_vips, answers) ==
    LET start == [vips |-> vips, pending |-> VIP_IN_PENDING_CREATE,
                  calls |-> <<>>, writes |-> <<>>, raised |-> FALSE]
        end == refresh_loop(start, pending_vips, answers, 1)
    IN  /\ vips' = end.vips
        /\ VIP_IN_PENDING_CREATE' = end.pending
        /\ last' = [Report("_refresh_vip_status", "-", "-", TRUE, end.calls, end.writes)
                      EXCEPT !.raised = end.raised, !.listed = pending_vips,
                             !.answers = answers]
        /\ UNCHANGED <<pools, members, monitors, conf, flows, ncc_vips>>

RefreshVipStatus ==
    \E pending_vips \in OrdersOf(get_vips(vips, PENDING_CREATE)) :
        \E answers \in [Range(pending_vips) -> RetrieveOutcomes] :
            refresh_vip_status(pending_vips, answers)

\* ------------------------------------------------------------------------
\* Member Status Sweep
\* ------------------------------------------------------------------------

Min(a, b) == IF a < b THEN a ELSE b

\* The 'statuses' of the body the remote returns for
\* GET oca/v1/memberstatus?page=page_no&size=size, when the feed holds the
\* status groups all_statuses: the page_no-th slice of size groups.
memberstatus_page(all_statuses, page_no, size) ==
    SubSeq(all_statuses, (page_no - 1) * size + 1, Min(page_no * size, Len(all_statuses)))

\* A loop body that leaves a member in ERROR alone: the variant C16 must
\* tell from apply_member_status.
apply_member_status_unless_error(acc, member) ==
    IF acc.members[member.id] = ERROR
    THEN acc
    ELSE [acc EXCEPT
            !.members = update_status(@, member.id, member.status),
            !.writes = Append(@, StatusWrite("member", member.id, member.status,
                                             member.status_description))]

\* the body of the inner for loop: plugin.update_status(context_handle,
\* loadbalancer_db.Member, member_id, member_status, member_status_desc)
apply_member_status(acc, member) ==
    [acc EXCEPT
       !.members = update_status(@, member.id, member.status),
       !.writes = Append(@, StatusWrite("member", member.id, member.status,
                                        member.status_description))]

\* the inner for loop: one update_status per member entry of a group
RECURSIVE refresh_group(_, _, _)
refresh_group(acc, memberstatus, j) ==
    IF j > Len(memberstatus)
    THEN acc
    ELSE refresh_group(apply_member_status(acc, memberstatus[j]), memberstatus, j + 1)

\* the outer for loop: the status groups of one page
RECURSIVE refresh_page(_, _, _)
refresh_page(acc, statuses, i) ==
    IF i > Len(statuses)
    THEN acc
    ELSE refresh_page(refresh_group(acc, statuses[i], 1), statuses, i + 1)

\* A stop test that counts member entries instead of status groups: the
\* variant C7 must tell from no_more_pages.
RECURSIVE count_members(_)
count_members(statuses) ==
    IF statuses = <<>> THEN 0 ELSE Len(Head(statuses)) + count_members(Tail(statuses))

no_more_pages_counting_members(statuses, size) == count_members(statuses) < size

\* the test that ends the while loop: len(statuses) < int(status_collection_pagesize)
no_more_pages(statuses, size) == Len(statuses) < size

\* the while loop from page page_no on
\* retrieve_resource is not inside a try: when it raises for page bad_page
\* (0: it never raises) the exception leaves the method
RECURSIVE refresh_pages(_, _, _, _, _)
refresh_pages(acc, all_statuses, size, page_no, bad_page) ==
    LET statuses == memberstatus_page(all_statuses, page_no, size)
        fetched == [acc EXCEPT !.pages = Append(@, page_no)]
        applied == refresh_page(fetched, statuses, 1)
    IN  IF page_no = bad_page
        THEN [fetched EXCEPT !.raised = TRUE]
        ELSE IF no_more_pages(statuses, size)
        THEN applied
        ELSE refresh_pages(applied, all_statuses, size, page_no + 1, bad_page)

\* _refresh_all_members_status(); all_statuses: the status groups the remote
\* feed holds, each the list of its member entries (id, status,
\* status_description); bad_page: the page whose retrieve raises, if any
refresh_all_members_status(all_statuses, bad_page) ==
    LET start == [members |-> members, pages |-> <<>>, writes |-> <<>>, raised |-> FALSE]
        end == refresh_pages(start, all_statuses, status_collection_pagesize, 1, bad_page)
    IN  /\ members' = end.members
        /\ last' = [Report("_refresh_all_members_status", "-", "-", TRUE, <<>>, end.writes)
                      EXCEPT !.pages = end.pages, !.statuses = all_statuses,
                             !.raised = end.raised]
        /\ UNCHANGED <<vips, VIP_IN_PENDING_CREATE, pools, monitors, conf, flows, ncc_vips>>

\* The feeds explored: n status groups over the members that have a record,
\* each member in at most one group (place[m] = 0: the feed does not report
\* m), with any report per member; a group lists its members in MemberOrder.
MemberOrder == <<"m1", "m2">>

MemberEntry(m, report) ==
    [id |-> m, status |-> report.status, status_description |-> report.status_description]

FeedOf(n, place, report) ==
    [g \in 1..n |->
        LET ids == SelectSeq(MemberOrder, LAMBDA m : place[m] = g)
        IN  [j \in 1..Len(ids) |-> MemberEntry(ids[j], report[ids[j]])]]

Feeds ==
    LET known == {m \in MemberIds : members[m] # NONE}
    IN  UNION {
          {FeedOf(n, place, report) :
               place \in {p \in [MemberIds -> 0..n] : \A m \in MemberIds : p[m] # 0 => m \in known},
               report \in [MemberIds -> MemberReports]}
          : n \in 0..MaxGroups}

RefreshAllMembersStatus ==
    \E all_statuses \in Feeds : refresh_all_members_status(all_statuses, 0)

\* a sweep in which the retrieve of one of the pages it asks for raises
RefreshAllMembersStatusFailing ==
    \E all_statuses \in Feeds :
        \E bad_page \in 1..((Len(all_statuses) \div status_collection_pagesize) + 1) :
            refresh_all_members_status(all_statuses, bad_page)

\* ------------------------------------------------------------------------
\* The request flow and the periodic flow, statement by statement
\* ------------------------------------------------------------------------

\* A create_vip that writes the status before the remote call returns: the
\* variant C17 must tell from create_vip_call.
create_vip_call_writes_first(vip, ok) ==
    /\ flows.create[vip].pc = "idle"
    /\ vips' = update_status(vips, vip, IF ok THEN PENDING_CREATE ELSE ERROR)
    /\ flows' = [flows EXCEPT
                   !.create[vip] = IF ok THEN [pc |-> "append", status |-> PENDING_CREATE]
                                         ELSE [pc |-> "write", status |-> ERROR]]
    /\ last' = Report("create_vip_call", vip, vip, ok,
                      <<Call("create_resource", <<VIPS_RESOURCE>>)>>, <<>>)
    /\ UNCHANGED <<VIP_IN_PENDING_CREATE, pools, members, monitors, conf, ncc_vips>>

\* create_vip, lines 124-130: status = PENDING_CREATE; the remote call; on
\* NCCException status = ERROR
create_vip_call(vip, ok) ==
    /\ flows.create[vip].pc = "idle"
    /\ flows' = [flows EXCEPT
                   !.create[vip] = IF ok THEN [pc |-> "append", status |-> PENDING_CREATE]
                                         ELSE [pc |-> "write", status |-> ERROR]]
    /\ last' = Report("create_vip_call", vip, vip, ok,
                      <<Call("create_resource", <<VIPS_RESOURCE>>)>>, <<>>)
    /\ UNCHANGED <<vips, VIP_IN_PENDING_CREATE, pools, members, monitors, conf, ncc_vips>>

\* create_vip, lines 131-132: else: VIP_IN_PENDING_CREATE.append(vip["id"])
create_vip_append(vip) ==
    /\ flows.create[vip].pc = "append"
    /\ VIP_IN_PENDING_CREATE' = Append(VIP_IN_PENDING_CREATE, vip)
    /\ flows' = [flows EXCEPT !.create[vip].pc = "write"]
    /\ last' = Report("create_vip_append", vip, vip, TRUE, <<>>, <<>>)
    /\ UNCHANGED <<vips, pools, members, monitors, conf, ncc_vips>>

\* create_vip, lines 133-134: self.plugin.update_status(..., vip["id"], status)
create_vip_write(vip) ==
    /\ flows.create[vip].pc = "write"
    /\ vips' = update_status(vips, vip, flows.create[vip].status)
    /\ flows' = [flows EXCEPT !.create[vip].pc = "done"]
    /\ last' = Report("create_vip_write", vip, vip, TRUE, <<>>,
                      <<StatusWrite("vip", vip, flows.create[vip].status, NoDesc)>>)
    /\ UNCHANGED <<VIP_IN_PENDING_CREATE, pools, members, monitors, conf, ncc_vips>>

\* the for loop of _refresh_vip_status moves to the next vip_id, or ends
pass_next(p) ==
    IF p.i < Len(p.listed)
    THEN [p EXCEPT !.pc = "retrieve", !.i = @ + 1, !.answer = NONE]
    ELSE [IdlePass EXCEPT !.failed = p.failed]

\* _refresh_vip_status, lines 470-473: pending_vips = plugin.get_vips(...)
refresh_vip_list(pending_vips) ==
    /\ flows.pass.pc = "idle"
    /\ flows' = [flows EXCEPT
                   !.pass = pass_next([IdlePass EXCEPT !.listed = pending_vips,
                                                       !.failed = flows.pass.failed])]
    /\ last' = [Report("refresh_vip_list", "-", "-", TRUE, <<>>, <<>>)
                  EXCEPT !.listed = pending_vips]
    /\ UNCHANGED <<vips, VIP_IN_PENDING_CREATE, pools, members, monitors, conf, ncc_vips>>

\* _refresh_vip_status, lines 474-489: the retrieve call for vip_id and the
\* test of the status it answers
refresh_vip_retrieve(answer) ==
    /\ flows.pass.pc = "retrieve"
    /\ LET vip_id == flows.pass.listed[flows.pass.i]
       IN  /\ flows' = [flows EXCEPT
                          !.pass = IF answer \in {NCCException, PENDING_CREATE}
                                   THEN pass_next(@)
                                   ELSE [@ EXCEPT !.pc = "write", !.answer = answer]]
           /\ last' = Report("refresh_vip_retrieve", vip_id, vip_id, answer # NCCException,
                             <<Call("retrieve_resource", <<VIPS_RESOURCE, vip_id>>)>>, <<>>)
    /\ UNCHANGED <<vips, VIP_IN_PENDING_CREATE, pools, members, monitors, conf, ncc_vips>>

\* _refresh_vip_status, lines 491-494: plugin.update_status(..., vip_id, vip_status)
refresh_vip_write ==
    /\ flows.pass.pc = "write"
    /\ LET vip_id == flows.pass.listed[flows.pass.i]
       IN  /\ vips' = update_status(vips, vip_id, flows.pass.answer)
           /\ last' = Report("refresh_vip_write", vip_id, vip_id, TRUE, <<>>,
                             <<StatusWrite("vip", vip_id, flows.pass.answer, NoDesc)>>)
    /\ flows' = [flows EXCEPT !.pass.pc = "remove"]
    /\ UNCHANGED <<VIP_IN_PENDING_CREATE, pools, members, monitors, conf, ncc_vips>>

\* _refresh_vip_status, line 495: VIP_IN_PENDING_CREATE.remove(vip_id); the
\* ValueError of a missing id ends the pass
refresh_vip_remove ==
    /\ flows.pass.pc = "remove"
    /\ LET vip_id == flows.pass.listed[flows.pass.i]
       IN  IF vip_id \in Range(VIP_IN_PENDING_CREATE)
           THEN /\ VIP_IN_PENDING_CREATE' = ListRemove(VIP_IN_PENDING_CREATE, vip_id)
                /\ flows' = [flows EXCEPT !.pass = pass_next(@)]
                /\ last' = Report("refresh_vip_remove", vip_id, vip_id, TRUE, <<>>, <<>>)
           ELSE /\ VIP_IN_PENDING_CREATE' = VIP_IN_PENDING_CREATE
                /\ flows' = [flows EXCEPT !.pass = [IdlePass EXCEPT !.failed = TRUE]]
                /\ last' = [Report("refresh_vip_remove", vip_id, vip_id, TRUE, <<>>, <<>>)
                              EXCEPT !.raised = TRUE]
    /\ UNCHANGED <<vips, pools, members, monitors, conf, ncc_vips>>

CreateVipCall == \E vip \in VipIds, ok \in BOOLEAN : create_vip_call(vip, ok)
CreateVipAppend == \E vip \in VipIds : create_vip_append(vip)
CreateVipWrite == \E vip \in VipIds : create_vip_write(vip)
RefreshVipList ==
    \E pending_vips \in OrdersOf(get_vips(vips, PENDING_CREATE)) : refresh_vip_list(pending_vips)
RefreshVipRetrieve == \E answer \in RetrieveOutcomes : refresh_vip_retrieve(answer)

\* the statements of the convergence pass
PassSteps == RefreshVipList \/ RefreshVipRetrieve \/ refresh_vip_write \/ refresh_vip_remove

\* ------------------------------------------------------------------------
\* The periodic task
\* ------------------------------------------------------------------------

\* execute_periodic_tasks(context): self._refresh_vip_status(), then, if
\* enable_status_collection, self._refresh_all_members_status(); an
\* exception raised by the first call leaves the method.  ran: the methods
\* entered, in order.
execute_periodic_tasks(pending_vips, answers, all_statuses) ==
    LET pass == refresh_loop([vips |-> vips, pending |-> VIP_IN_PENDING_CREATE,
                              calls |-> <<>>, writes |-> <<>>, raised |-> FALSE],
                             pending_vips, answers, 1)
        sweeps == ~pass.raised /\ enable_status_collection
        sweep == IF sweeps
                 THEN refresh_pages([members |-> members, pages |-> <<>>,
                                     writes |-> <<>>, raised |-> FALSE],
                                    all_statuses, status_collection_pagesize, 1, 0)
                 ELSE [members |-> members, pages |-> <<>>, writes |-> <<>>,
                       raised |-> FALSE]
    IN  /\ vips' = pass.vips
        /\ VIP_IN_PENDING_CREATE' = pass.pending
        /\ members' = sweep.members
        /\ last' = [Report("execute_periodic_tasks", "-", "-", TRUE, pass.calls,
                           pass.writes \o sweep.writes)
                      EXCEPT !.raised = pass.raised, !.listed = pending_vips,
                             !.answers = answers, !.pages = sweep.pages,
                             !.statuses = IF sweeps THEN all_statuses ELSE <<>>,
                             !.ran = IF sweeps
                                     THEN <<"_refresh_vip_status",
                                            "_refresh_all_members_status">>
                                     ELSE <<"_refresh_vip_status">>]
        /\ UNCHANGED <<pools, monitors, conf, flows, ncc_vips>>

\* one firing of the timer
ExecutePeriodicTasks ==
    \E pending_vips \in OrdersOf(get_vips(vips, PENDING_CREATE)) :
        \E answers \in [Range(pending_vips) -> RetrieveOutcomes] :
            \E all_statuses \in Feeds :
                execute_periodic_tasks(pending_vips, answers, all_statuses)

\* ------------------------------------------------------------------------
\* Process restart: the module is loaded again, the store persists
\* ------------------------------------------------------------------------

Restart ==
    /\ VIP_IN_PENDING_CREATE' = <<>>
    /\ last' = Report("restart", "-", "-", TRUE, <<>>, <<>>)
    /\ UNCHANGED <<vips, pools, members, monitors, conf, flows, ncc_vips>>

\* ------------------------------------------------------------------------
\* Specifications
\* ------------------------------------------------------------------------

CreateVip == \E vip \in VipIds, ok \in BOOLEAN : create_vip(vip, ok)
UpdateVip == \E old_vip \in VipIds, vip \in VipIds, ok \in BOOLEAN : update_vip(old_vip, vip, ok)
DeleteVip == \E vip \in VipIds, ok \in BOOLEAN : delete_vip(vip, ok)

CreatePool == \E pool \in PoolIds, ok \in BOOLEAN : create_pool(pool, ok)
UpdatePool == \E old_pool \in PoolIds, pool \in NewPoolIds, ok \in BOOLEAN : update_pool(old_pool, pool, ok)
DeletePool == \E pool \in PoolIds, ok \in BOOLEAN : delete_pool(pool, ok)
CreateMember == \E member \in MemberIds, ok \in BOOLEAN : create_member(member, ok)
UpdateMember ==
    \E old_member \in MemberIds, member \in MemberIds, ok \in BOOLEAN :
        update_member(old_member, member, ok)
DeleteMember == \E member \in MemberIds, ok \in BOOLEAN : delete_member(member, ok)
CreateMonitor ==
    \E health_monitor \in MonitorIds, pool_id \in PoolIds, ok \in BOOLEAN :
        create_pool_health_monitor(health_monitor, pool_id, ok)
UpdateMonitor ==
    \E old_health_monitor \in MonitorIds, health_monitor \in NewMonitorIds,
       pool_id \in PoolIds, ok \in BOOLEAN :
        update_pool_health_monitor(old_health_monitor, health_monitor, pool_id, ok)
DeleteMonitor ==
    \E health_monitor \in MonitorIds, pool_id \in PoolIds, ok \in BOOLEAN :
        delete_pool_health_monitor(health_monitor, pool_id, ok)

Stats == \E pool_id \in NewPoolIds, ok \in BOOLEAN, body \in StatsBodies : stats(pool_id, ok, body)

NextLifecycle ==
    \/ CreateVip \/ UpdateVip \/ DeleteVip
    \/ CreatePool \/ UpdatePool \/ DeletePool
    \/ CreateMember \/ UpdateMember \/ DeleteMember
    \/ CreateMonitor \/ UpdateMonitor \/ DeleteMonitor

\* the configuration the lifecycle operations and the convergence pass never read
InitDefaultConf ==
    /\ Init
    /\ enable_status_collection = TRUE
    /\ status_collection_pagesize = MaxPageSize

SpecLifecycle == InitDefaultConf /\ [][NextLifecycle]_vars

NextVip == CreateVip \/ UpdateVip \/ DeleteVip \/ RefreshVipStatus \/ Restart

SpecVip == InitDefaultConf /\ [][NextVip]_vars

\* the vip operations and the pass in one process lifetime
NextVipNoRestart == CreateVip \/ UpdateVip \/ DeleteVip \/ RefreshVipStatus

SpecVipNoRestart == InitDefaultConf /\ [][NextVipNoRestart]_vars

NextSweep == CreateMember \/ UpdateMember \/ DeleteMember \/ RefreshAllMembersStatus

\* the sweep runs only when status collection is enabled
InitSweep ==
    /\ Init
    /\ enable_status_collection = TRUE

SpecSweep == InitSweep /\ [][NextSweep]_vars

\* one create_vip per vip id, statement by statement, against convergence
\* passes, statement by statement
NextCreateRace == CreateVipCall \/ CreateVipAppend \/ CreateVipWrite \/ PassSteps

SpecCreateRace == InitDefaultConf /\ [][NextCreateRace]_vars

\* the same, with update_vip running between the statements
NextUpdateRace == CreateVipCall \/ CreateVipAppend \/ CreateVipWrite \/ UpdateVip \/ PassSteps

SpecUpdateRace == InitDefaultConf /\ [][NextUpdateRace]_vars

\* statistics retrieval between operations on pools and vips
NextStats == CreateVip \/ CreatePool \/ DeletePool \/ Stats

SpecStats == InitDefaultConf /\ [][NextStats]_vars

\* the timer firing between vip operations and restarts, under either
\* configuration
NextPeriodic == CreateVip \/ DeleteVip \/ Restart \/ ExecutePeriodicTasks

SpecPeriodic == Init /\ [][NextPeriodic]_vars

\* the sweep against a remote whose retrieve can raise
NextSweepFaults ==
    \/ CreateMember \/ UpdateMember \/ DeleteMember
    \/ RefreshAllMembersStatus \/ RefreshAllMembersStatusFailing

SpecSweepFaults == InitSweep /\ [][NextSweepFaults]_vars

\* ------------------------------------------------------------------------
\* Reading the observer
\* ------------------------------------------------------------------------

CreateOps == {"create_vip", "create_pool", "create_member", "create_pool_health_monitor"}
UpdateOps == {"update_vip", "update_pool", "update_member", "update_pool_health_monitor"}
DeleteOps == {"delete_vip", "delete_pool", "delete_member", "delete_pool_health_monitor"}
LifecycleOps == CreateOps \cup UpdateOps \cup DeleteOps

KindOf(op) ==
    CASE op \in {"create_vip", "update_vip", "delete_vip"} -> "vip"
      [] op \in {"create_pool", "update_pool", "delete_pool"} -> "pool"
      [] op \in {"create_member", "update_member", "delete_member"} -> "member"
      [] OTHER -> "healthmonitor"

\* the store, all kinds
Stores == [vip |-> vips, pool |-> pools, member |-> members, healthmonitor |-> monitors]

\* the status store st holds for resource t = <<kind, id, pool>> (NONE: no record)
StatusIn(st, t) ==
    IF t[1] = "healthmonitor" THEN st.healthmonitor[<<t[2], t[3]>>] ELSE st[t[1]][t[2]]

\* every resource the store can hold, as <<kind, id, pool>>
Resources ==
    {<<"vip", v, NoPool>> : v \in VipIds} \cup {<<"pool", p, NoPool>> : p \in PoolIds}
    \cup {<<"member", m, NoPool>> : m \in MemberIds}
    \cup {<<"healthmonitor", h, p>> : h \in MonitorIds, p \in PoolIds}

\* the resource the handler recorded in r was called for
TargetOf(r) == <<KindOf(r.op), r.id, r.pool>>

InPendingSet(v) == v \in Range(VIP_IN_PENDING_CREATE)

VipPath(v) == <<RESOURCE_PREFIX, VIPS_RESOURCE, v>>

\* the vips of the pass recorded in r whose retrieve call was issued and succeeded
Retrieved(r) ==
    {v \in Range(r.listed) :
        /\ \E i \in 1..Len(r.calls) : r.calls[i].path = VipPath(v)
        /\ r.answers[v] # NCCException}

\* ------------------------------------------------------------------------
\* C1
\* ------------------------------------------------------------------------

\* C1: when create_vip(v) returns after a successful remote create, the
\* store status of v is PENDING_CREATE and v is in VIP_IN_PENDING_CREATE;
\* when it returns after a failed remote create, the store status of v is
\* ERROR and v is not in VIP_IN_PENDING_CREATE.
C1_CreateVipContract ==
    last.op = "create_vip" =>
        IF last.ok
        THEN vips[last.id] = PENDING_CREATE /\ InPendingSet(last.id)
        ELSE vips[last.id] = ERROR /\ ~InPendingSet(last.id)

\* ------------------------------------------------------------------------
\* C2
\* ------------------------------------------------------------------------

\* C2: after one convergence pass, for every vip that was listed as
\* PENDING_CREATE and whose retrieve call succeeded: if the remote status is
\* still PENDING_CREATE, its store status and its membership of
\* VIP_IN_PENDING_CREATE are as before the pass; otherwise its store status
\* is the remote status and it is not in VIP_IN_PENDING_CREATE.
C2_ConvergencePass ==
    [][last'.op = "_refresh_vip_status" =>
          \A v \in Retrieved(last') :
              IF last'.answers[v] = PENDING_CREATE
              THEN (vips'[v] = vips[v]) /\ (InPendingSet(v)' <=> InPendingSet(v))
              ELSE (vips'[v] = last'.answers[v]) /\ ~InPendingSet(v)'
      ]_vars

\* ------------------------------------------------------------------------
\* C3
\* ------------------------------------------------------------------------

\* C3: between handlers, a vip id is in VIP_IN_PENDING_CREATE if and only if
\* the last status transition of the vip was a successful create that no
\* pass has confirmed yet.  Only a successful create_vip stores
\* PENDING_CREATE, and every other transition (a failed create, an update, a
\* delete, a confirmation by the pass) stores another status or drops the
\* record, so that is the case exactly when the store status is
\* PENDING_CREATE.
C3_PendingSetInvariant ==
    \A v \in VipIds : InPendingSet(v) <=> vips[v] = PENDING_CREATE

\* ------------------------------------------------------------------------
\* C4
\* ------------------------------------------------------------------------

\* C4: when a delete operation returns, the record is gone from the store if
\* the remote delete succeeded, and is present with status ERROR if it
\* failed; and whenever a record leaves the store, the step was a delete
\* operation for that record whose remote delete succeeded.
C4_DeleteContract ==
    [][LET deleted == last'.op \in DeleteOps
       IN  /\ deleted =>
                 StatusIn(Stores', TargetOf(last')) = (IF last'.ok THEN NONE ELSE ERROR)
           /\ \A t \in Resources :
                 (StatusIn(Stores, t) # NONE /\ StatusIn(Stores', t) = NONE)
                     => (deleted /\ last'.ok /\ TargetOf(last') = t)
      ]_vars

\* a delete whose remote call failed has run on a record that was there
C4_Witness ==
    /\ last.op = "delete_pool_health_monitor"
    /\ ~last.ok
    /\ monitors[<<last.id, last.pool>>] = ERROR

\* ------------------------------------------------------------------------
\* C5
\* ------------------------------------------------------------------------

\* C5: every update operation addresses its remote call to the path of the
\* old entity's identifier and keys its status write by the old entity's
\* identifier; a different identifier of the new entity is in neither.
C5_UpdateUsesOldId ==
    last.op \in UpdateOps =>
        /\ last.id \in Range(last.calls[1].path)
        /\ last.writes[1].id = last.id
        /\ last.new # last.id =>
               /\ last.new \notin Range(last.calls[1].path)
               /\ last.writes[1].id # last.new

\* ------------------------------------------------------------------------
\* C6
\* ------------------------------------------------------------------------

\* C6: a create of a pool, a member or a health monitor, and an update of
\* any kind, stores ACTIVE when the remote call succeeded and ERROR when it
\* failed, whatever status the resource had before (a record left in ERROR
\* by an earlier failed create included), and changes nothing else: no other
\* record, not VIP_IN_PENDING_CREATE, not the configuration.
C6_StatusByOutcome ==
    [][last'.op \in (CreateOps \ {"create_vip"}) \cup UpdateOps =>
          LET t == TargetOf(last')
              status == IF last'.ok THEN ACTIVE ELSE ERROR
          IN  /\ StatusIn(Stores', t) = status
              /\ last'.writes[1].status = status
              /\ \A u \in Resources \ {t} : StatusIn(Stores', u) = StatusIn(Stores, u)
              /\ VIP_IN_PENDING_CREATE' = VIP_IN_PENDING_CREATE
              /\ conf' = conf
      ]_vars

\* a create of a health monitor has failed and left the record in ERROR
C6_Witness ==
    /\ last.op = "create_pool_health_monitor"
    /\ ~last.ok
    /\ monitors[<<last.id, last.pool>>] = ERROR
    /\ last.writes[1].status = ERROR

\* ------------------------------------------------------------------------
\* C7
\* ------------------------------------------------------------------------

\* the member entries of the status groups, in the order the feed lists them
RECURSIVE EntriesOf(_)
EntriesOf(groups) ==
    IF groups = <<>> THEN <<>> ELSE Head(groups) \o EntriesOf(Tail(groups))

\* C7: when pages 1..N-1 of the feed each hold exactly pagesize status
\* groups and page N holds fewer, the sweep retrieves the pages 1, 2, ..., N
\* in that order and no other, and writes the status and description of
\* every member entry of every group of those pages, in feed order; the
\* number of member entries in a page plays no part in stopping.
C7_SweepPagination ==
    last.op = "_refresh_all_members_status" =>
        \A N \in 1..(MaxGroups + 1) :
            LET size == status_collection_pagesize
                page(k) == memberstatus_page(last.statuses, k, size)
                entries == EntriesOf(last.statuses)
            IN  (/\ \A k \in 1..(N - 1) : Len(page(k)) = size
                 /\ Len(page(N)) < size)
                => /\ last.pages = [k \in 1..N |-> k]
                   /\ last.writes =
                          [i \in 1..Len(entries) |->
                              StatusWrite("member", entries[i].id, entries[i].status,
                                          entries[i].status_description)]
                   /\ \A i \in 1..Len(entries) :
                          members[entries[i].id] = entries[i].status

\* page size 2 and three status groups holding 1, 0 and 1 member: the first
\* page holds fewer members than the page size but two groups, so a second
\* page is retrieved; two retrieves, two status writes
C7_Witness ==
    /\ last.op = "_refresh_all_members_status"
    /\ status_collection_pagesize = 2
    /\ Len(last.statuses) = 3
    /\ Len(last.statuses[1]) = 1 /\ Len(last.statuses[2]) = 0 /\ Len(last.statuses[3]) = 1
    /\ last.pages = <<1, 2>>
    /\ Len(last.writes) = 2

\* ------------------------------------------------------------------------
\* C8
\* ------------------------------------------------------------------------

\* C8: every create, update and delete operation returns normally whatever
\* the remote call did, and its effect on the store is exactly one write on
\* the record it was called for: a status write, or the deletion of the
\* record when a remote delete succeeded; after a remote failure the write
\* is a status write of ERROR.
C8_OneWriteAndReturn ==
    [][last'.op \in LifecycleOps =>
          LET t == TargetOf(last')
              w == last'.writes[1]
          IN  /\ ~last'.raised
              /\ Len(last'.writes) = 1
              /\ <<w.kind, w.id, w.pool>> = t
              /\ w.act \in {"update_status", "delete"}
              /\ w.act = "delete" <=> (last'.op \in DeleteOps /\ last'.ok)
              /\ ~last'.ok => (w.act = "update_status" /\ w.status = ERROR)
              /\ StatusIn(Stores', t) = w.status
              /\ \A u \in Resources \ {t} : StatusIn(Stores', u) = StatusIn(Stores, u)
      ]_vars

\* a create whose remote call failed has returned with one ERROR write
C8_Witness ==
    /\ last.op = "create_pool"
    /\ ~last.ok
    /\ ~last.raised
    /\ last.writes = <<StatusWrite("pool", last.id, ERROR, NoDesc)>>
    /\ pools[last.id] = ERROR

\* ------------------------------------------------------------------------
\* C9
\* ------------------------------------------------------------------------

\* C9: in one convergence pass, every vip the store listed as PENDING_CREATE
\* has its retrieve call issued, and is reconciled (its store status is the
\* remote status when the remote answered another status than
\* PENDING_CREATE), whatever happened to the vips listed before it.
C9_PerItemIsolation ==
    last.op = "_refresh_vip_status" =>
        \A v \in Range(last.listed) :
            /\ \E i \in 1..Len(last.calls) : last.calls[i].path = VipPath(v)
            /\ last.answers[v] \notin {NCCException, PENDING_CREATE}
                   => vips[v] = last.answers[v]

\* ------------------------------------------------------------------------
\* C10
\* ------------------------------------------------------------------------

\* C10: a convergence pass that finds in the store a PENDING_CREATE vip that
\* is not in VIP_IN_PENDING_CREATE (the list was reset by a restart)
\* completes without raising, and stores the remote status of every such
\* vip whose remote status is not PENDING_CREATE.
C10_RestartRediscovery ==
    [][(/\ last'.op = "_refresh_vip_status"
        /\ \E v \in Range(last'.listed) : ~InPendingSet(v))
       => /\ ~last'.raised
          /\ \A v \in Range(last'.listed) :
                (~InPendingSet(v) /\ last'.answers[v] \notin {NCCException, PENDING_CREATE})
                    => vips'[v] = last'.answers[v]
      ]_vars

\* ------------------------------------------------------------------------
\* C11
\* ------------------------------------------------------------------------

\* the member entries of page k of the feed recorded in r
PageEntries(r, k) ==
    EntriesOf(memberstatus_page(r.statuses, k, status_collection_pagesize))

\* C11: when the retrieve of one page of a sweep fails, the members of the
\* other pages of the feed still have their remote status in the store
\* after that sweep.
C11_SweepPageIsolation ==
    (last.op = "_refresh_all_members_status" /\ last.raised) =>
        \A k \in 1..(MaxGroups + 1) :
            k # last.pages[Len(last.pages)] =>
                \A i \in 1..Len(PageEntries(last, k)) :
                    members[PageEntries(last, k)[i].id] = PageEntries(last, k)[i].status

\* ------------------------------------------------------------------------
\* C12
\* ------------------------------------------------------------------------

\* C12: every firing of the periodic task runs the convergence pass first,
\* and runs the member sweep, after the pass, exactly when status collection
\* is enabled, whatever the pass of that firing did.
C12_FiringOrder ==
    last.op = "execute_periodic_tasks" =>
        /\ last.ran # <<>>
        /\ last.ran[1] = "_refresh_vip_status"
        /\ \A i \in 2..Len(last.ran) : last.ran[i] = "_refresh_all_members_status"
        /\ Len(last.ran) <= 2
        /\ (Len(last.ran) = 2) <=> enable_status_collection

\* ------------------------------------------------------------------------
\* C13
\* ------------------------------------------------------------------------

PassOps == {"_refresh_vip_status", "execute_periodic_tasks"}
SweepOps == {"_refresh_all_members_status", "execute_periodic_tasks"}

\* the writes of the handler recorded in r that are made to resource t
WritesTo(r, t) ==
    SelectSeq(r.writes, LAMBDA w : <<w.kind, w.id, w.pool>> = t)

\* the handler recorded in r had a reason to write w: its own remote call
\* failed, or it copies the status the remote reported for that resource
Justified(r, w) ==
    \/ r.op \in LifecycleOps /\ ~r.ok
    \/ /\ r.op \in PassOps
       /\ w.kind = "vip"
       /\ w.id \in DOMAIN r.answers
       /\ r.answers[w.id] = w.status
    \/ /\ r.op \in SweepOps
       /\ w.kind = "member"
       /\ \E i \in 1..Len(EntriesOf(r.statuses)) :
              /\ EntriesOf(r.statuses)[i].id = w.id
              /\ EntriesOf(r.statuses)[i].status = w.status

\* C13: the status of a record changes only by the writes of a handler, the
\* last write to the record deciding; and every write of ERROR is made by a
\* lifecycle operation whose remote call failed, or by a reconciliation
\* pass copying the status the remote reported.  So a record is in ERROR
\* only if the most recent write to it was of one of these two kinds.
C13_ErrorOnlyOnFailure ==
    [][/\ \A t \in Resources :
             LET ws == WritesTo(last', t)
             IN  IF ws = <<>>
                 THEN StatusIn(Stores', t) = StatusIn(Stores, t)
                 ELSE StatusIn(Stores', t) = ws[Len(ws)].status
       /\ \A i \in 1..Len(last'.writes) :
             last'.writes[i].status = ERROR => Justified(last', last'.writes[i])
      ]_vars

\* a pass has copied ERROR from the remote, and, in the same state, another
\* vip is in ERROR after a lifecycle operation
C13_Witness ==
    /\ last.op = "_refresh_vip_status"
    /\ ~last.raised
    /\ \E v \in Range(last.listed) : last.answers[v] = ERROR /\ vips[v] = ERROR
    /\ \E v \in VipIds \ Range(last.listed) : vips[v] = ERROR

\* ------------------------------------------------------------------------
\* C14
\* ------------------------------------------------------------------------

\* C14: stats returns the statistics mapping of the remote when the
\* retrieve call succeeds and returns no result when it fails; it never
\* raises, writes nothing to the store, and leaves every record's status
\* and VIP_IN_PENDING_CREATE as they were.
C14_StatsContract ==
    [][last'.op = "stats" =>
          /\ ~last'.raised
          /\ last'.ok => (last'.returned = last'.body /\ last'.body \in StatsBodies)
          /\ ~last'.ok => last'.returned = NoResult
          /\ last'.writes = <<>>
          /\ Stores' = Stores
          /\ VIP_IN_PENDING_CREATE' = VIP_IN_PENDING_CREATE
      ]_vars

\* a failed stats on a pool that has a record has returned no result
C14_Witness ==
    /\ last.op = "stats"
    /\ ~last.ok
    /\ last.returned = NoResult
    /\ last.id \in PoolIds
    /\ pools[last.id] = ACTIVE
    /\ VIP_IN_PENDING_CREATE # <<>>

\* ------------------------------------------------------------------------
\* C15
\* ------------------------------------------------------------------------

\* how often id x is in the list s
RECURSIVE Count(_, _)
Count(x, s) ==
    IF s = <<>> THEN 0 ELSE (IF Head(s) = x THEN 1 ELSE 0) + Count(x, Tail(s))

\* the retrieve call for vip v was issued by the pass recorded in r
Polled(r, v) == \E i \in 1..Len(r.calls) : r.calls[i].path = VipPath(v)

FetchedEntries(r) ==
    LET fetched == IF r.raised THEN Len(r.pages) - 1 ELSE Len(r.pages)
    IN  EntriesOf(SubSeq(r.statuses, 1,
                         Min(fetched * status_collection_pagesize, Len(r.statuses))))

\* C16: a sweep writes, for every member entry of every page it fetched,
\* the remote status and description of that entry, whatever status the
\* member had before, and that status is what the store holds afterwards; a
\* member that is in no fetched entry keeps its status.
C16_SweepOverwrites ==
    [][last'.op = "_refresh_all_members_status" =>
          LET entries == FetchedEntries(last')
          IN  /\ Len(last'.writes) = Len(entries)
              /\ \A i \in 1..Len(entries) :
                    /\ last'.writes[i] =
                           StatusWrite("member", entries[i].id, entries[i].status,
                                       entries[i].status_description)
                    /\ members'[entries[i].id] = entries[i].status
              /\ \A m \in MemberIds :
                    (\A i \in 1..Len(entries) : entries[i].id # m) => members'[m] = members[m]
      ]_vars

\* a sweep has set m1 to the remote status DOWN and left m2, which the feed
\* does not report, in ERROR
C16_Witness ==
    /\ last.op = "_refresh_all_members_status"
    /\ Len(last.writes) = 1
    /\ last.writes[1].id = "m1" /\ last.writes[1].status = "DOWN"
    /\ last.writes[1].desc = "probe failed"
    /\ members["m1"] = "DOWN"
    /\ members["m2"] = ERROR

\* ------------------------------------------------------------------------
\* C17
\* ------------------------------------------------------------------------

\* no create_vip and no convergence pass is between two of its statements
Quiescent ==
    /\ flows.pass.pc = "idle"
    /\ \A v \in VipIds : flows.create[v].pc \in {"idle", "done"}

\* C17: however the statements of one create_vip per vip interleave with
\* the statements of convergence passes, no statement fails; whenever
\* neither is mid-execution, a vip is in VIP_IN_PENDING_CREATE exactly when
\* its store status is PENDING_CREATE; and a status other than
\* PENDING_CREATE that the store holds for a vip is never replaced by
\* PENDING_CREATE.
C17_CreateRaceSafe ==
    /\ [](~flows.pass.failed)
    /\ [](Quiescent => \A v \in VipIds : InPendingSet(v) <=> vips[v] = PENDING_CREATE)
    /\ [][\A v \in VipIds :
             vips[v] \notin {NONE, PENDING_CREATE} => vips'[v] # PENDING_CREATE]_vars

\* both vips were created while passes ran; the pass has confirmed v1 and
\* is about to remove v2 from the list, after writing its status
C17_Witness ==
    /\ flows.create["v1"].pc = "done" /\ flows.create["v2"].pc = "done"
    /\ vips["v1"] = ACTIVE /\ ~InPendingSet("v1")
    /\ flows.pass.pc = "remove"
    /\ flows.pass.listed[flows.pass.i] = "v2"
    /\ vips["v2"] = ERROR /\ InPendingSet("v2")

\* ------------------------------------------------------------------------
\* C18
\* ------------------------------------------------------------------------

\* the status a lifecycle operation leaves on the record it is called for:
\* decided by the operation and the outcome of its remote call
StatusAfter(op, ok) ==
    IF ~ok THEN ERROR
    ELSE IF op \in DeleteOps THEN NONE
    ELSE IF op = "create_vip" THEN PENDING_CREATE
    ELSE ACTIVE

\* the store with the record of resource t = <<kind, id, pool>> set to
\* status (NONE: removed) and every other record as it is
StoresWith(t, status) ==
    IF t[1] = "healthmonitor"
    THEN [Stores EXCEPT !.healthmonitor[<<t[2], t[3]>>] = status]
    ELSE [Stores EXCEPT ![t[1]][t[2]] = status]

C19_NoDuplicates ==
    \A v \in VipIds : Count(v, VIP_IN_PENDING_CREATE) <= 1

\* ------------------------------------------------------------------------
\* C20
\* ------------------------------------------------------------------------

PassStepOps == {"refresh_vip_list", "refresh_vip_retrieve", "refresh_vip_write",
                "refresh_vip_remove"}

\* C20: the periodic flow touches only pending vips, also when lifecycle
\* operations run between its statements: a retrieve call is issued only
\* for a vip whose store status is PENDING_CREATE, and no statement of a
\* pass changes the status of a vip that is ACTIVE or ERROR.
C20_PassTouchesOnlyPending ==
    [][last'.op \in PassStepOps /\ flows'.pass # flows.pass =>
          /\ last'.op = "refresh_vip_retrieve" => vips[last'.id] = PENDING_CREATE
          /\ \A v \in VipIds : vips[v] \in {ACTIVE, ERROR} => vips'[v] = vips[v]
      ]_vars

\* ------------------------------------------------------------------------
\* C21
\* ------------------------------------------------------------------------

\* the statuses the controller can settle on for a vip
SettledStatuses == VipRemoteStatuses \ {PENDING_CREATE}

\* The controller finishes its work on a vip the store holds as
\* PENDING_CREATE: from here on retrieve_resource for that vip returns a
\* body whose vip.status is s.
NccSettles ==
    \E v \in VipIds, s \in SettledStatuses :
        /\ vips[v] = PENDING_CREATE
        /\ ncc_vips[v] = NONE
        /\ ncc_vips' = [ncc_vips EXCEPT ![v] = s]
        /\ last' = Report("ncc_settles", v, "-", TRUE, <<>>, <<>>)
        /\ UNCHANGED <<vips, pools, members, monitors, VIP_IN_PENDING_CREATE, conf, flows>>

\* create_vip for a vip the controller has not settled
CreateVipUnsettled ==
    \E vip \in VipIds, ok \in BOOLEAN : ncc_vips[vip] = NONE /\ create_vip(vip, ok)

\* one firing of the timer: retrieve_resource answers a settled vip with the
\* settled status, and anything for the others; there are no members, and
\* the member-status feed is empty
TimerFires ==
    \E pending_vips \in OrdersOf(get_vips(vips, PENDING_CREATE)) :
        \E answers \in [Range(pending_vips) -> RetrieveOutcomes] :
            /\ \A v \in Range(pending_vips) : ncc_vips[v] # NONE => answers[v] = ncc_vips[v]
            /\ execute_periodic_tasks(pending_vips, answers, <<>>)

\* vip creation, restarts and the controller settling, with a timer that
\* keeps firing: tg.add_timer(interval, collectors.run_periodic_tasks)
NextConverge == CreateVipUnsettled \/ Restart \/ NccSettles \/ TimerFires

SpecConverge == InitDefaultConf /\ [][NextConverge]_vars /\ WF_vars(TimerFires)

\* C21: with the timer firing again and again and no further restart, a vip
\* the store holds as PENDING_CREATE and for which the controller has settled
\* on a status other than PENDING_CREATE eventually has that status in the
\* store and is not in VIP_IN_PENDING_CREATE, for one or several pending
\* vips and after a restart; and a firing in which the controller reports
\* PENDING_CREATE for a vip, or the retrieve fails, leaves the vip
\* PENDING_CREATE, firing after firing.
C21_ConvergenceLiveness ==
    /\ \A v \in VipIds :
           (<>[][last'.op # "restart"]_vars)
               => ((vips[v] = PENDING_CREATE /\ ncc_vips[v] # NONE)
                      ~> (vips[v] = ncc_vips[v] /\ ~InPendingSet(v)))
    /\ [][last'.op = "execute_periodic_tasks" =>
            \A v \in Range(last'.listed) :
                last'.answers[v] \in {NCCException, PENDING_CREATE}
                    => vips'[v] = PENDING_CREATE]_vars

\* ------------------------------------------------------------------------
\* C22
\* ------------------------------------------------------------------------

\* The pages the controller can answer a request of the given size with:
\* up to size status groups, each empty or holding one entry of a member
\* that has a record.
GroupChoices ==
    {<<>>} \cup {<<MemberEntry(m, report)>> :
                    m \in {k \in MemberIds : members[k] # NONE}, report \in MemberReports}

PagesFor(size) == UNION {[1..n -> GroupChoices] : n \in 0..size}

\* _refresh_all_members_status, line 499: page_no = 1
sweep_start ==
    /\ flows.sweep.pc \in {"idle", "returned"}
    /\ flows' = [flows EXCEPT !.sweep = [IdleSweep EXCEPT !.pc = "fetch", !.page_no = 1]]
    /\ last' = Report("sweep_start", "-", "-", TRUE, <<>>, <<>>)
    /\ UNCHANGED <<vips, VIP_IN_PENDING_CREATE, pools, members, monitors, conf, ncc_vips>>

\* A loop body that stops only on an empty page: the variant C22 must tell
\* from sweep_fetch.
sweep_fetch_stops_on_empty(statuses) ==
    /\ flows.sweep.pc = "fetch"
    /\ flows.sweep.page_no <= MaxPages
    /\ LET page_no == flows.sweep.page_no
           applied == refresh_page([members |-> members, writes |-> <<>>], statuses, 1)
       IN  /\ members' = applied.members
           /\ flows' = [flows EXCEPT
                          !.sweep.pages = Append(@, page_no),
                          !.sweep.lens = Append(@, Len(statuses)),
                          !.sweep.pc = IF Len(statuses) = 0 THEN "returned" ELSE "fetch",
                          !.sweep.page_no = IF Len(statuses) = 0 THEN @ ELSE @ + 1]
           /\ last' = [Report("sweep_fetch", "-", "-", TRUE, <<>>, applied.writes)
                         EXCEPT !.pages = <<page_no>>, !.statuses = statuses]
    /\ UNCHANGED <<vips, VIP_IN_PENDING_CREATE, pools, monitors, conf, ncc_vips>>

\* _refresh_all_members_status, lines 500-527, one turn of the while loop:
\* retrieve page page_no, write the status of every member entry of its
\* groups, then return if len(statuses) < int(status_collection_pagesize),
\* else page_no += 1.  statuses: the groups the controller answers with.
sweep_fetch(statuses) ==
    /\ flows.sweep.pc = "fetch"
    /\ flows.sweep.page_no <= MaxPages
    /\ LET page_no == flows.sweep.page_no
           stop == no_more_pages(statuses, status_collection_pagesize)
           applied == refresh_page([members |-> members, writes |-> <<>>], statuses, 1)
       IN  /\ members' = applied.members
           /\ flows' = [flows EXCEPT
                          !.sweep.pages = Append(@, page_no),
                          !.sweep.lens = Append(@, Len(statuses)),
                          !.sweep.pc = IF stop THEN "returned" ELSE "fetch",
                          !.sweep.page_no = IF stop THEN @ ELSE @ + 1]
           /\ last' = [Report("sweep_fetch", "-", "-", TRUE, <<>>, applied.writes)
                         EXCEPT !.pages = <<page_no>>, !.statuses = statuses]
    /\ UNCHANGED <<vips, VIP_IN_PENDING_CREATE, pools, monitors, conf, ncc_vips>>

SweepFetch == \E statuses \in PagesFor(status_collection_pagesize) : sweep_fetch(statuses)

\* the sweep, one page at a time, against a controller that decides at each
\* request what the page holds
NextSweepPages == CreateMember \/ sweep_start \/ SweepFetch

SpecSweepPages == InitSweep /\ [][NextSweepPages]_vars

RECURSIVE SumOf(_)
SumOf(s) == IF s = <<>> THEN 0 ELSE Head(s) + SumOf(Tail(s))

\* C22: a sweep asks for the pages 1, 2, 3, ... in that order, each once;
\* it has returned exactly when the page it fetched last holds fewer status
\* groups than the page size, and every page before that one was full; so
\* after k full pages and an empty one it has made k + 1 requests, and as
\* long as every page is full it is still in the loop, about to ask for the
\* next page.
C22_SweepTermination ==
    LET sweep == flows.sweep
        size == status_collection_pagesize
        n == Len(sweep.lens)
    IN  /\ sweep.pages = [k \in 1..n |-> k]
        /\ \A k \in 1..(n - 1) : sweep.lens[k] = size
        /\ sweep.pc = "fetch" =>
               /\ \A k \in 1..n : sweep.lens[k] = size
               /\ sweep.page_no = n + 1
        /\ sweep.pc = "returned" =>
               /\ n >= 1
               /\ sweep.lens[n] < size
               /\ n = (SumOf(sweep.lens) \div size) + 1
        /\ (n >= 1 /\ \A k \in 1..n : sweep.lens[k] = size) => sweep.pc = "fetch"

\* page size 2 and a controller holding 2 * 2 status groups: two full pages
\* and an empty third one, three requests, and the sweep has returned
C22_Witness ==
    /\ status_collection_pagesize = 2
    /\ flows.sweep.pc = "returned"
    /\ flows.sweep.pages = <<1, 2, 3>>
    /\ flows.sweep.lens = <<2, 2, 0>>

=============================================================================
